---- MODULE Spec2Model ----
(***************************************************************************)
(* A model of pikelet's binding core (src/src/var.rs): names, de Bruijn    *)
(* indices, Named<T>, Var, Scope, close / close0 / bind / open, and the    *)
(* fresh-name generator.                                                   *)
(***************************************************************************)
EXTENDS Integers, Sequences, FiniteSets, TLC

VARIABLES
    term,             \* the core term built so far
    bc_op,            \* the last close / close0 / bind: its closure, input, output
    opened,           \* Option<Term>: bc_op's output, opened again at level 0
    eng_ctx,          \* the Context handed to the engine
    eng_term,         \* the core term handed to the engine
    eng_out,          \* the engine's last call: its arguments and results
    cmp,              \* the last `==` evaluated: its kind, operands and result
    next_gen,         \* FreshGen.next_gen
    gen_calls,        \* number of next_gen() calls that have returned
    gen_last,         \* Option<u32>: the id returned by the latest call
    gen_prev,         \* Option<u32>: the id returned by the call before it
    index,            \* a Debruijn value held by a caller
    index_op,         \* the last succ / pred applied: its argument and result
    index_prev_op,    \* the succ / pred applied before that one
    overflow_checks,  \* the build: TRUE panics on `+` overflow, FALSE wraps
    panicked,         \* an arithmetic-overflow panic has unwound the caller
    diag,             \* the last error conversion: its kind, input and output
    history_file,     \* opts.history_file is Some(path)
    repl_pc,          \* where run stands: start, loop, after_loop, returned
    repl_last,        \* the latest turn of run's loop: what was read and done
    lines_read,       \* number of readline calls that returned a line or Interrupted
    history_adds,     \* number of rl.add_history_entry calls
    history_save,     \* rl.save_history: none (not called), ok, failed
    emitted_total,    \* number of diagnostics emitted since run started
    run_result        \* Option<Result<(), Error>>: what run returned

varsBind == <<term, bc_op, opened>>
varsEng == <<eng_ctx, eng_term, eng_out>>
varsEq  == <<cmp>>
varsDiag == <<diag>>
varsRepl == <<history_file, repl_pc, repl_last, lines_read, history_adds,
              history_save, emitted_total, run_result>>
varsGen == <<next_gen, gen_calls, gen_last, gen_prev, index, index_op,
             index_prev_op, overflow_checks, panicked>>
varsGenBuild == <<next_gen, gen_calls, gen_last, gen_prev, index, index_op,
                  index_prev_op, overflow_checks>>
vars == <<term, bc_op, opened, eng_ctx, eng_term, eng_out, cmp, next_gen, gen_calls, gen_last, gen_prev, index, index_op,
             index_prev_op, overflow_checks, panicked, varsDiag, varsRepl>>

(***************************************************************************)
(* Bounds of the model.                                                    *)
(***************************************************************************)
MaxGenId == 0
MaxIndex == 2
MaxCalls == 4
MaxSize == 3
MaxLevel == 1
MaxDepth == 2
MaxSpan == 1
MaxLines == 2
MaxParseErrors == 2

(***************************************************************************)
(* u32.  A u32 is held as the 32-bit integer with the same bit pattern:    *)
(* a value below 2^31 is itself, and 2^32 - k is held as -k, so u32::MAX   *)
(* is -1.  Wrapping addition of 1 is then the addition of 1 on the         *)
(* pattern, and it overflows the u32 exactly when it goes from -1 to 0.    *)
(***************************************************************************)
U32Max == -1

PatternMax == 2147483647

PatternMin == (-2147483647) - 1

\* u32::wrapping_add(v, 1)
WrappingSucc(v) == IF v = PatternMax THEN PatternMin ELSE v + 1

\* v - 1 for v > 0
U32Pred(v) == IF v = PatternMin THEN PatternMax ELSE v - 1

\* `<` on u32
U32Lt(a, b) == IF (a < 0) = (b < 0) THEN a < b ELSE b < 0

(***************************************************************************)
(* Option<T>                                                               *)
(***************************************************************************)
None == [tag |-> "None"]

Some(v) == [tag |-> "Some", val |-> v]

IsSome(o) == o.tag = "Some"

(***************************************************************************)
(* Name                                                                    *)
(***************************************************************************)
User(s) == [tag |-> "User", s |-> s]

Gen(id) == [tag |-> "Gen", id |-> id]

Abstract == [tag |-> "Abstract"]

UserStrings == {"x", "y"}

Names == {User(s) : s \in UserStrings} \cup {Gen(i) : i \in 0..MaxGenId}
             \cup {Abstract}

\* A derived PartialEq in place of the hand-written one.
NameEqDerived(lhs, rhs) == lhs = rhs

\* impl PartialEq for Name: only two User names can be equal.
NameEq(lhs, rhs) ==
    IF lhs.tag = "User" /\ rhs.tag = "User" THEN lhs.s = rhs.s ELSE FALSE

(***************************************************************************)
(* Debruijn                                                                *)
(***************************************************************************)
ZERO == 0

\* `self.0 + 1` on a u32 overflows exactly at u32::MAX.
SuccOverflows(d) == d = U32Max

\* Debruijn::succ where the addition does not panic (two's complement wrap).
DebruijnSucc(d) == WrappingSucc(d)

\* pred without the match on ZERO.
DebruijnPredUnguarded(d) == Some(U32Pred(d))

\* Debruijn::pred
DebruijnPred(d) == IF d = ZERO THEN None ELSE Some(U32Pred(d))

\* #[derive(PartialEq)] on Debruijn(u32)
DebruijnEq(a, b) == a = b

(***************************************************************************)
(* Named<T>, with T = Debruijn                                             *)
(***************************************************************************)
Named(n, v) == [name |-> n, val |-> v]

\* A derived PartialEq on Named<T>, which compares the name as well.
NamedEqDerived(lhs, rhs) ==
    NameEq(lhs.name, rhs.name) /\ DebruijnEq(lhs.val, rhs.val)

\* impl PartialEq for Named<T>: the name is ignored.
NamedEq(lhs, rhs) == DebruijnEq(lhs.val, rhs.val)

(***************************************************************************)
(* Var                                                                     *)
(***************************************************************************)
Free(n) == [tag |-> "Free", name |-> n]

Bound(nd) == [tag |-> "Bound", named |-> nd]

\* #[derive(PartialEq)] on Var: same variant and equal payloads.
VarEq(lhs, rhs) ==
    CASE lhs.tag = "Free" /\ rhs.tag = "Free" -> NameEq(lhs.name, rhs.name)
      [] lhs.tag = "Bound" /\ rhs.tag = "Bound" -> NamedEq(lhs.named, rhs.named)
      [] OTHER -> FALSE

(***************************************************************************)
(* Core terms: Universe, Var, Lam, Pi, App, Ann.  A Lam holds a            *)
(* Scope<Named<Option<Term>>, Term>, a Pi a Scope<Named<Term>, Term>.      *)
(***************************************************************************)
Universe(l) == [tag |-> "Universe", level |-> l]

Var(v) == [tag |-> "Var", var |-> v]

Lam(scope) == [tag |-> "Lam", scope |-> scope]

Pi(scope) == [tag |-> "Pi", scope |-> scope]

App(f, a) == [tag |-> "App", fn |-> f, arg |-> a]

Ann(e, t) == [tag |-> "Ann", expr |-> e, type |-> t]

Scope(param, body) == [unsafe_param |-> param, unsafe_body |-> body]

\* The outcome of a call that panicked on an arithmetic overflow.
Panic == [tag |-> "Panic"]

Panicked(x) == x = Panic

\* Scope::close's closure without the `.map(Debruijn::succ)`.
MapSuccDropped(on_free) == on_free

\* The closure `|name| on_free(name).map(Debruijn::succ)` of Scope::close.
\* A closure is held as the table of its answers; the answer for a name is
\* Panic when computing it overflows in a build with overflow checks, and
\* the panic happens when close asks for that name.
MapSucc(on_free) ==
    [n \in DOMAIN on_free |->
        IF Panicked(on_free[n]) THEN Panic
        ELSE IF IsSome(on_free[n])
        THEN IF overflow_checks /\ SuccOverflows(on_free[n].val) THEN Panic
             ELSE Some(DebruijnSucc(on_free[n].val))
        ELSE None]

\* Var::close that binds the variables on_free declines as well.
VarCloseEveryFree(v, on_free) ==
    IF v.tag = "Bound" THEN v
    ELSE IF Panicked(on_free[v.name]) THEN Panic
    ELSE IF on_free[v.name] = None THEN Bound(Named(v.name, ZERO))
    ELSE Bound(Named(v.name, on_free[v.name].val))

\* impl LocallyNameless for Var: close.  The result is Panic when the call
\* of on_free panics.
VarClose(v, on_free) ==
    IF v.tag = "Bound" THEN v
    ELSE IF Panicked(on_free[v.name]) THEN Panic
    ELSE IF on_free[v.name] = None THEN v
    ELSE Bound(Named(v.name, on_free[v.name].val))

RECURSIVE TermClose(_, _)

\* impl LocallyNameless for Option<T>: close
OptionClose(o, on_free) ==
    IF IsSome(o)
    THEN LET c == TermClose(o.val, on_free)
         IN  IF Panicked(c) THEN Panic ELSE Some(c)
    ELSE o

\* impl LocallyNameless for Named<T>: close, T being Option<Term> or Term
NamedClose(p, on_free) ==
    LET c == IF p.val.tag \in {"None", "Some"} THEN OptionClose(p.val, on_free)
             ELSE TermClose(p.val, on_free)
    IN  IF Panicked(c) THEN Panic ELSE Named(p.name, c)

\* impl LocallyNameless for Scope<P, T>: close
ScopeClose(scope, on_free) ==
    LET param == NamedClose(scope.unsafe_param, on_free)
        body == TermClose(scope.unsafe_body, MapSucc(on_free))
    IN  IF Panicked(param) \/ Panicked(body) THEN Panic
        ELSE Scope(param, body)

\* close on a term: each node closes its parts, and a panic in a part
\* unwinds the whole call.
TermClose(t, on_free) ==
    CASE t.tag = "Universe" -> t
      [] t.tag = "Var" ->
            LET v == VarClose(t.var, on_free)
            IN  IF Panicked(v) THEN Panic ELSE Var(v)
      [] t.tag = "Lam" ->
            LET sc == ScopeClose(t.scope, on_free)
            IN  IF Panicked(sc) THEN Panic ELSE Lam(sc)
      [] t.tag = "Pi" ->
            LET sc == ScopeClose(t.scope, on_free)
            IN  IF Panicked(sc) THEN Panic ELSE Pi(sc)
      [] t.tag = "App" ->
            LET f == TermClose(t.fn, on_free)
                x == TermClose(t.arg, on_free)
            IN  IF Panicked(f) \/ Panicked(x) THEN Panic ELSE App(f, x)
      [] t.tag = "Ann" ->
            LET e == TermClose(t.expr, on_free)
                ty == TermClose(t.type, on_free)
            IN  IF Panicked(e) \/ Panicked(ty) THEN Panic ELSE Ann(e, ty)

\* The closure of LocallyNameless::close0.
Close0OnFree(name) ==
    [found \in Names |-> IF NameEq(name, found) THEN Some(ZERO) ELSE None]

\* LocallyNameless::close0
Close0(t, name) == TermClose(t, Close0OnFree(name))

\* impl Pattern for Named<T>: handle_free
HandleFree(param, level, name) ==
    IF NameEq(param.name, name) THEN Some(level) ELSE None

\* The closure of Scope::bind.
BindOnFree(param) == [found \in Names |-> HandleFree(param, ZERO, found)]

\* Scope::bind
ScopeBind(param, body) ==
    LET closed == TermClose(body, BindOnFree(param))
    IN  IF Panicked(closed) THEN Panic ELSE Scope(param, closed)

\* Var::open: is this the bound variable of the binder at `level`?
VarOpen(v, level) ==
    IF v.tag = "Bound" THEN DebruijnEq(v.named.val, level) ELSE FALSE

RECURSIVE TermOpen(_, _, _)

OptionOpen(o, level, x) ==
    IF IsSome(o) THEN Some(TermOpen(o.val, level, x)) ELSE o

NamedOpen(p, level, x) ==
    IF p.val.tag \in {"None", "Some"}
    THEN Named(p.name, OptionOpen(p.val, level, x))
    ELSE Named(p.name, TermOpen(p.val, level, x))

\* Opening under a Scope that does not go one level deeper for the body.
ScopeOpenSameLevel(scope, level, x) ==
    Scope(NamedOpen(scope.unsafe_param, level, x),
          TermOpen(scope.unsafe_body, level, x))

ScopeOpen(scope, level, x) ==
    Scope(NamedOpen(scope.unsafe_param, level, x),
          TermOpen(scope.unsafe_body, DebruijnSucc(level), x))

\* Opening: the variables bound at `level` are replaced by x, and an index
\* deeper than `level` goes down by one as the binder is removed.
TermOpen(t, level, x) ==
    CASE t.tag = "Universe" -> t
      [] t.tag = "Var" ->
            IF VarOpen(t.var, level) THEN x
            ELSE IF t.var.tag = "Bound" /\ U32Lt(level, t.var.named.val)
                 THEN Var(Bound(Named(t.var.named.name,
                                      U32Pred(t.var.named.val))))
                 ELSE t
      [] t.tag = "Lam" -> Lam(ScopeOpen(t.scope, level, x))
      [] t.tag = "Pi" -> Pi(ScopeOpen(t.scope, level, x))
      [] t.tag = "App" -> App(TermOpen(t.fn, level, x), TermOpen(t.arg, level, x))
      [] t.tag = "Ann" -> Ann(TermOpen(t.expr, level, x), TermOpen(t.type, level, x))

RECURSIVE TermSize(_)

\* The number of nodes of a term.
TermSize(t) ==
    CASE t.tag \in {"Universe", "Var"} -> 1
      [] t.tag = "Lam" ->
            1 + (IF IsSome(t.scope.unsafe_param.val)
                 THEN TermSize(t.scope.unsafe_param.val.val) ELSE 0)
              + TermSize(t.scope.unsafe_body)
      [] t.tag = "Pi" ->
            1 + TermSize(t.scope.unsafe_param.val) + TermSize(t.scope.unsafe_body)
      [] t.tag = "App" -> 1 + TermSize(t.fn) + TermSize(t.arg)
      [] t.tag = "Ann" -> 1 + TermSize(t.expr) + TermSize(t.type)

(***************************************************************************)
(* Building terms the way the translation from concrete syntax does: from  *)
(* free variables and universes, each binder made by Scope::bind.          *)
(***************************************************************************)
Atoms == {Var(Free(n)) : n \in Names} \cup {Universe(0)}

LamAnns == {None, Some(Var(Free(User("x")))), Some(Universe(0))}

PiAnns == {Var(Free(User("y"))), Universe(0)}

\* The closures handed to close: one name at a level, two names at once,
\* and one name at a level so high that a binder or two reach u32::MAX.
OnFrees ==
    {[n \in Names |-> IF n = a THEN Some(l) ELSE None] :
        a \in {User("x"), Abstract}, l \in 0..MaxLevel}
    \cup {[n \in Names |-> IF n = User("x") THEN Some(1)
                           ELSE IF n = User("y") THEN Some(0) ELSE None]}
    \cup {[n \in Names |-> IF n = User("x") THEN Some(l) ELSE None] :
            l \in {U32Max - 1, U32Max}}

NoOp == [kind |-> "none"]

Build(t) ==
    /\ ~panicked
    /\ TermSize(t) <= MaxSize
    /\ term' = t
    /\ bc_op' = NoOp
    /\ opened' = None
    /\ UNCHANGED panicked

MkApp == \E a \in Atoms : Build(App(term, a)) \/ Build(App(a, term))

MkAnn == Build(Ann(term, Universe(0)))

\* A binder made by Scope::bind around the term built so far.
BuildScope(param, scope, t) ==
    /\ ~panicked
    /\ IF Panicked(scope)
       THEN /\ bc_op' = [kind |-> "bind", name |-> param.name,
                         on_free |-> BindOnFree(param),
                         before |-> term, after |-> Panic]
            /\ panicked' = TRUE
            /\ UNCHANGED term
       ELSE /\ TermSize(t) <= MaxSize
            /\ term' = t
            /\ bc_op' = [kind |-> "bind", name |-> param.name,
                         on_free |-> BindOnFree(param),
                         before |-> term, after |-> scope.unsafe_body]
            /\ UNCHANGED panicked
    /\ opened' = None

MkLam ==
    \E n \in Names, ann \in LamAnns :
        LET param == Named(n, ann)
            scope == ScopeBind(param, term)
        IN  BuildScope(param, scope, Lam(scope))

MkPi ==
    \E n \in Names, ann \in PiAnns :
        LET param == Named(n, ann)
            scope == ScopeBind(param, term)
        IN  BuildScope(param, scope, Pi(scope))

\* term.clone().close(on_free)
DoClose ==
    /\ ~panicked
    /\ bc_op.kind \in {"none", "bind"}
    /\ \E on_free \in OnFrees :
          /\ bc_op' = [kind |-> "close", on_free |-> on_free,
                       before |-> term, after |-> TermClose(term, on_free)]
          /\ panicked' = Panicked(TermClose(term, on_free))
    /\ opened' = None
    /\ UNCHANGED term

\* term.clone().close0(name)
DoClose0 ==
    /\ ~panicked
    /\ bc_op.kind \in {"none", "bind"}
    /\ \E name \in Names :
          /\ bc_op' = [kind |-> "close0", name |-> name,
                       on_free |-> Close0OnFree(name),
                       before |-> term, after |-> Close0(term, name)]
          /\ panicked' = Panicked(Close0(term, name))
    /\ opened' = None
    /\ UNCHANGED term

\* The closed term opened at level 0 with the variable it was closed over.
DoOpen ==
    /\ ~panicked
    /\ bc_op.kind \in {"close0", "bind"}
    /\ opened = None
    /\ opened' = Some(TermOpen(bc_op.after, ZERO, Var(Free(bc_op.name))))
    /\ UNCHANGED <<term, bc_op, panicked>>

(***************************************************************************)
(* Errors of the engine (src/src/semantics/errors.rs) and results.  A      *)
(* ByteSpan is a pair of byte offsets; the engine's errors are built here  *)
(* with the empty span at offset 0, and the spans of an error handed to    *)
(* to_diagnostic are set with WithSpans.                                   *)
(***************************************************************************)
Ok(v) == [tag |-> "Ok", val |-> v]

Err(e) == [tag |-> "Err", err |-> e]

ByteSpan(lo, hi) == [lo |-> lo, hi |-> hi]

NoSpan == ByteSpan(0, 0)

UnsubstitutedDebruijnIndex(name, i) ==
    [tag |-> "UnsubstitutedDebruijnIndex", span |-> NoSpan,
     name |-> name, index |-> i]

InternalUndefinedName(name) ==
    [tag |-> "UndefinedName", var_span |-> NoSpan, name |-> name]

NotAFunctionType(found) ==
    [tag |-> "NotAFunctionType", fn_span |-> NoSpan, arg_span |-> NoSpan,
     found |-> found]

FunctionParamNeedsAnnotation(name) ==
    [tag |-> "FunctionParamNeedsAnnotation", param_span |-> NoSpan,
     var_span |-> None, name |-> name]

Mismatch(found, expected) ==
    [tag |-> "Mismatch", span |-> NoSpan, found |-> found,
     expected |-> expected]

UnexpectedFunction(expected) ==
    [tag |-> "UnexpectedFunction", span |-> NoSpan, expected |-> expected]

ExpectedUniverse(found) ==
    [tag |-> "ExpectedUniverse", span |-> NoSpan, found |-> found]

UndefinedName(name) ==
    [tag |-> "UndefinedName", var_span |-> NoSpan, name |-> name]

\* TypeError::Internal
Internal(e) == [tag |-> "Internal", inner |-> e]

\* impl From<InternalError> for TypeError
TypeErrorFrom(src) == Internal(src)

RECURSIVE TermEq(_, _)

\* PartialEq on Option<Term>
OptionEq(a, b) ==
    IF IsSome(a) /\ IsSome(b) THEN TermEq(a.val, b.val) ELSE a.tag = b.tag

\* impl PartialEq for Named<T> on a binder's parameter: the annotation only.
ParamEq(p, q) ==
    IF p.val.tag \in {"None", "Some"} THEN OptionEq(p.val, q.val)
    ELSE TermEq(p.val, q.val)

\* #[derive(PartialEq)] on Scope
ScopeEq(a, b) ==
    ParamEq(a.unsafe_param, b.unsafe_param) /\ TermEq(a.unsafe_body, b.unsafe_body)

\* Structural equality of terms, as PartialEq derives it.
TermEq(a, b) ==
    IF a.tag # b.tag THEN FALSE
    ELSE CASE a.tag = "Universe" -> a.level = b.level
           [] a.tag = "Var" -> VarEq(a.var, b.var)
           [] a.tag = "Lam" -> ScopeEq(a.scope, b.scope)
           [] a.tag = "Pi" -> ScopeEq(a.scope, b.scope)
           [] a.tag = "App" -> TermEq(a.fn, b.fn) /\ TermEq(a.arg, b.arg)
           [] a.tag = "Ann" -> TermEq(a.expr, b.expr) /\ TermEq(a.type, b.type)

\* #[derive(PartialEq)] on InternalError
InternalErrorEq(a, b) ==
    IF a.tag # b.tag THEN FALSE
    ELSE CASE a.tag = "UnsubstitutedDebruijnIndex" ->
                 /\ a.span = b.span
                 /\ NameEq(a.name, b.name)
                 /\ DebruijnEq(a.index, b.index)
           [] a.tag = "UndefinedName" ->
                 a.var_span = b.var_span /\ NameEq(a.name, b.name)

\* #[derive(PartialEq)] on TypeError
TypeErrorEq(a, b) ==
    IF a.tag # b.tag THEN FALSE
    ELSE CASE a.tag = "NotAFunctionType" ->
                 /\ a.fn_span = b.fn_span
                 /\ a.arg_span = b.arg_span
                 /\ TermEq(a.found, b.found)
           [] a.tag = "FunctionParamNeedsAnnotation" ->
                 /\ a.param_span = b.param_span
                 /\ a.var_span = b.var_span
                 /\ NameEq(a.name, b.name)
           [] a.tag = "Mismatch" ->
                 /\ a.span = b.span
                 /\ TermEq(a.found, b.found)
                 /\ TermEq(a.expected, b.expected)
           [] a.tag = "UnexpectedFunction" ->
                 a.span = b.span /\ TermEq(a.expected, b.expected)
           [] a.tag = "ExpectedUniverse" ->
                 a.span = b.span /\ TermEq(a.found, b.found)
           [] a.tag = "UndefinedName" ->
                 a.var_span = b.var_span /\ NameEq(a.name, b.name)
           [] a.tag = "Internal" -> InternalErrorEq(a.inner, b.inner)

(***************************************************************************)
(* Diagnostics (codespan_reporting::Diagnostic as errors.rs builds it): a  *)
(* severity, a message and the labels in the order they were added.  A     *)
(* message is its format string, with ' where the source has a backquote, *)
(* and the values formatted into it.                                       *)
(***************************************************************************)
Format(fmt, args) == [fmt |-> fmt, args |-> args]

\* Diagnostic::new_bug
NewBug(message) == [severity |-> "Bug", message |-> message, labels |-> <<>>]

\* Diagnostic::new_error
NewError(message) ==
    [severity |-> "Error", message |-> message, labels |-> <<>>]

\* Diagnostic::with_primary_label
WithPrimaryLabel(d, span, message) ==
    [d EXCEPT !.labels = Append(@, [style |-> "Primary", span |-> span,
                                    message |-> message])]

\* Diagnostic::with_secondary_label
WithSecondaryLabel(d, span, message) ==
    [d EXCEPT !.labels = Append(@, [style |-> "Secondary", span |-> span,
                                    message |-> message])]

\* InternalError::span
InternalErrorSpan(e) ==
    CASE e.tag = "UnsubstitutedDebruijnIndex" -> e.span
      [] e.tag = "UndefinedName" -> e.var_span

\* An internal error rendered as an ordinary error.
InternalErrorToDiagnosticAsError(e) ==
    CASE e.tag = "UnsubstitutedDebruijnIndex" ->
            WithPrimaryLabel(
                NewError(Format("unsubstituted debruijn index: '{}{}'",
                                <<e.name, e.index>>)),
                e.span, "index found here")
      [] e.tag = "UndefinedName" ->
            WithPrimaryLabel(
                NewError(Format("cannot find '{}' in scope", <<e.name>>)),
                e.var_span, "not found in this scope")

\* InternalError::to_diagnostic
InternalErrorToDiagnostic(e) ==
    CASE e.tag = "UnsubstitutedDebruijnIndex" ->
            WithPrimaryLabel(
                NewBug(Format("unsubstituted debruijn index: '{}{}'",
                              <<e.name, e.index>>)),
                e.span, "index found here")
      [] e.tag = "UndefinedName" ->
            WithPrimaryLabel(
                NewBug(Format("cannot find '{}' in scope", <<e.name>>)),
                e.var_span, "not found in this scope")

\* TypeError::to_diagnostic
TypeErrorToDiagnostic(e) ==
    CASE e.tag = "Internal" -> InternalErrorToDiagnostic(e.inner)
      [] e.tag = "NotAFunctionType" ->
            WithSecondaryLabel(
                WithPrimaryLabel(
                    NewError(Format("applied an argument to a term that was not a function - found type '{}'",
                                    <<e.found>>)),
                    e.fn_span, "the term"),
                e.arg_span, "the applied argument")
      [] e.tag = "FunctionParamNeedsAnnotation" ->
            WithPrimaryLabel(
                NewError(Format("type annotation needed for the function parameter '{}'",
                                <<e.name>>)),
                e.param_span, "the parameter that requires an annotation")
      [] e.tag = "UnexpectedFunction" ->
            WithPrimaryLabel(
                NewError(Format("found a function but expected a term of type '{}'",
                                <<e.expected>>)),
                e.span, "the function")
      [] e.tag = "Mismatch" ->
            WithPrimaryLabel(
                NewError(Format("found a term of type '{}', but expected a term of type '{}'",
                                <<e.found, e.expected>>)),
                e.span, "the term")
      [] e.tag = "ExpectedUniverse" ->
            WithPrimaryLabel(
                NewError(Format("expected type, found value '{}'", <<e.found>>)),
                e.span, "the value")
      [] e.tag = "UndefinedName" ->
            WithPrimaryLabel(
                NewError(Format("cannot find '{}' in scope", <<e.name>>)),
                e.var_span, "not found in this scope")

(***************************************************************************)
(* Context: an ordered sequence of entries, each a name, its type and,     *)
(* for a definition, its value.                                            *)
(***************************************************************************)
Entry(name, ty, value) == [name |-> name, type |-> ty, value |-> value]

Extend(ctx, name, ty) == Append(ctx, Entry(name, ty, None))

\* The latest entry for a name, if any.
Lookup(ctx, name) ==
    LET hits == {i \in 1..Len(ctx) : NameEq(ctx[i].name, name)}
    IN  IF hits = {} THEN None
        ELSE Some(ctx[CHOOSE i \in hits : \A j \in hits : j <= i])

Max(a, b) == IF a >= b THEN a ELSE b

(***************************************************************************)
(* The normalizer.                                                         *)
(***************************************************************************)
RECURSIVE Normalize(_, _)

\* A binder's parameter with its annotation normalized; the body is kept.
NormalizeScope(ctx, t) ==
    LET p == t.scope.unsafe_param
        optional == p.val.tag \in {"None", "Some"}
    IN  IF optional /\ ~IsSome(p.val) THEN Ok(t)
        ELSE LET ann == Normalize(ctx, IF optional THEN p.val.val ELSE p.val)
             IN  IF ann.tag = "Err" THEN ann
                 ELSE Ok([t EXCEPT !.scope.unsafe_param.val =
                             IF optional THEN Some(ann.val) ELSE ann.val])

\* A normalizer that discards an annotation and leaves the inner term as
\* it stands.
NormalizeAnnKept(ctx, t) ==
    CASE t.tag = "Universe" -> Ok(t)
      [] t.tag = "Var" ->
            IF t.var.tag = "Bound"
            THEN Err(Internal(UnsubstitutedDebruijnIndex(t.var.named.name,
                                                         t.var.named.val)))
            ELSE LET e == Lookup(ctx, t.var.name)
                 IN  IF IsSome(e) /\ IsSome(e.val.value) THEN Ok(e.val.value.val)
                     ELSE Ok(t)
      [] t.tag \in {"Lam", "Pi"} -> NormalizeScope(ctx, t)
      [] t.tag = "App" ->
            LET f == Normalize(ctx, t.fn)
                a == Normalize(ctx, t.arg)
            IN  IF f.tag = "Err" THEN f
                ELSE IF a.tag = "Err" THEN a
                ELSE IF f.val.tag = "Lam"
                THEN Normalize(ctx, TermOpen(f.val.scope.unsafe_body, ZERO, a.val))
                ELSE Ok(App(f.val, a.val))
      [] t.tag = "Ann" -> Ok(t.expr)

Normalize(ctx, t) ==
    CASE t.tag = "Universe" -> Ok(t)
      [] t.tag = "Var" ->
            IF t.var.tag = "Bound"
            THEN Err(Internal(UnsubstitutedDebruijnIndex(t.var.named.name,
                                                         t.var.named.val)))
            ELSE LET e == Lookup(ctx, t.var.name)
                 IN  IF IsSome(e) /\ IsSome(e.val.value) THEN Ok(e.val.value.val)
                     ELSE Ok(t)
      [] t.tag \in {"Lam", "Pi"} -> NormalizeScope(ctx, t)
      [] t.tag = "App" ->
            LET f == Normalize(ctx, t.fn)
                a == Normalize(ctx, t.arg)
            IN  IF f.tag = "Err" THEN f
                ELSE IF a.tag = "Err" THEN a
                ELSE IF f.val.tag = "Lam"
                THEN Normalize(ctx, TermOpen(f.val.scope.unsafe_body, ZERO, a.val))
                ELSE Ok(App(f.val, a.val))
      [] t.tag = "Ann" -> Normalize(ctx, t.expr)

\* Definitional equality: both sides normalized, then compared structurally.
DefEq(ctx, a, b) ==
    LET na == Normalize(ctx, a)
        nb == Normalize(ctx, b)
    IN  na.tag = "Ok" /\ nb.tag = "Ok" /\ TermEq(na.val, nb.val)

(***************************************************************************)
(* The bidirectional checker.  infer gives Ok([term, type]) or an error,   *)
(* check gives Ok(term) or an error.                                       *)
(***************************************************************************)
Typed(t, ty) == [term |-> t, type |-> ty]

RECURSIVE Infer(_, _)
RECURSIVE Check(_, _, _)

\* The type of a term that has to be a type: Ok(Universe(i)) or an error.
InferUniverse(ctx, t) ==
    LET r == Infer(ctx, t)
    IN  IF r.tag = "Err" THEN r
        ELSE LET n == Normalize(ctx, r.val.type)
             IN  IF n.tag = "Err" THEN n
                 ELSE IF n.val.tag = "Universe" THEN n
                 ELSE Err(ExpectedUniverse(n.val))

InferVar(ctx, t) ==
    IF t.var.tag = "Bound"
    THEN Err(Internal(UnsubstitutedDebruijnIndex(t.var.named.name,
                                                 t.var.named.val)))
    ELSE LET e == Lookup(ctx, t.var.name)
         IN  IF IsSome(e) THEN Ok(Typed(t, e.val.type))
             ELSE Err(UndefinedName(t.var.name))

InferAnn(ctx, t) ==
    LET u == InferUniverse(ctx, t.type)
    IN  IF u.tag = "Err" THEN u
        ELSE LET expected == Normalize(ctx, t.type)
             IN  IF expected.tag = "Err" THEN expected
                 ELSE LET c == Check(ctx, t.expr, expected.val)
                      IN  IF c.tag = "Err" THEN c
                          ELSE Ok(Typed(t, expected.val))

InferApp(ctx, t) ==
    LET f == Infer(ctx, t.fn)
    IN  IF f.tag = "Err" THEN f
        ELSE LET fty == Normalize(ctx, f.val.type)
             IN  IF fty.tag = "Err" THEN fty
                 ELSE IF fty.val.tag # "Pi"
                 THEN Err(NotAFunctionType(fty.val))
                 ELSE LET pi == fty.val.scope
                          c == Check(ctx, t.arg, pi.unsafe_param.val)
                      IN  IF c.tag = "Err" THEN c
                          ELSE Ok(Typed(t, TermOpen(pi.unsafe_body, ZERO, t.arg)))

\* The level of a Pi type is the larger of its parameter's and its body's.
InferPi(ctx, t) ==
    LET p == t.scope.unsafe_param
        i == InferUniverse(ctx, p.val)
    IN  IF i.tag = "Err" THEN i
        ELSE LET dom == Normalize(ctx, p.val)
                 body == TermOpen(t.scope.unsafe_body, ZERO, Var(Free(p.name)))
             IN  IF dom.tag = "Err" THEN dom
                 ELSE LET j == InferUniverse(Extend(ctx, p.name, dom.val), body)
                      IN  IF j.tag = "Err" THEN j
                          ELSE Ok(Typed(t, Universe(Max(i.val.level,
                                                        j.val.level))))

\* infer on a Lam that gives the parameter's annotation a chance.
InferLamAnnotated(ctx, t) ==
    LET p == t.scope.unsafe_param
    IN  IF ~IsSome(p.val) THEN Err(FunctionParamNeedsAnnotation(p.name))
        ELSE Ok(Typed(t, Pi(Scope(Named(p.name, p.val.val), Universe(0)))))

\* infer on a Lam whose error does not name the parameter.
InferLamUnnamed(ctx, t) == Err(FunctionParamNeedsAnnotation(Abstract))

\* infer on a Lam: there is no expected Pi type to take the parameter from.
InferLam(ctx, t) == Err(FunctionParamNeedsAnnotation(t.scope.unsafe_param.name))

Infer(ctx, t) ==
    CASE t.tag = "Universe" -> Ok(Typed(t, Universe(t.level + 1)))
      [] t.tag = "Var" -> InferVar(ctx, t)
      [] t.tag = "Ann" -> InferAnn(ctx, t)
      [] t.tag = "App" -> InferApp(ctx, t)
      [] t.tag = "Pi" -> InferPi(ctx, t)
      [] t.tag = "Lam" -> InferLam(ctx, t)

CheckLam(ctx, t, expected) ==
    LET p == t.scope.unsafe_param
        pi == expected.scope
        dom == pi.unsafe_param.val
        x == Var(Free(p.name))
    IN  IF IsSome(p.val) /\ ~DefEq(ctx, p.val.val, dom)
        THEN Err(Mismatch(p.val.val, dom))
        ELSE LET c == Check(Extend(ctx, p.name, dom),
                            TermOpen(t.scope.unsafe_body, ZERO, x),
                            TermOpen(pi.unsafe_body, ZERO, x))
             IN  IF c.tag = "Err" THEN c ELSE Ok(t)

\* check that accepts every term against every type.
CheckAccepting(ctx, t, expected) == Ok(t)

Check(ctx, t, expected) ==
    LET want == Normalize(ctx, expected)
    IN  IF want.tag = "Err" THEN want
        ELSE IF t.tag = "Lam"
        THEN IF want.val.tag = "Pi" THEN CheckLam(ctx, t, want.val)
             ELSE Err(UnexpectedFunction(want.val))
        ELSE LET r == Infer(ctx, t)
             IN  IF r.tag = "Err" THEN r
                 ELSE IF DefEq(ctx, r.val.type, want.val) THEN Ok(t)
                 ELSE Err(Mismatch(r.val.type, want.val))

(***************************************************************************)
(* The engine applied to terms and contexts drawn from bounded sets.       *)
(***************************************************************************)
RECURSIVE AlphaRename(_, _, _)

\* The term with the binders named `from`, and the bound occurrences that
\* show that name, named `to` instead: the surface renaming of a parameter.
AlphaRename(t, from, to) ==
    LET ren(n) == IF n = from THEN to ELSE n
        scope(sc) ==
            LET p == sc.unsafe_param
            IN  Scope(Named(ren(p.name),
                            IF p.val.tag = "None" THEN p.val
                            ELSE IF p.val.tag = "Some"
                            THEN Some(AlphaRename(p.val.val, from, to))
                            ELSE AlphaRename(p.val, from, to)),
                      AlphaRename(sc.unsafe_body, from, to))
    IN  CASE t.tag = "Universe" -> t
          [] t.tag = "Var" ->
                IF t.var.tag = "Bound"
                THEN Var(Bound(Named(ren(t.var.named.name), t.var.named.val)))
                ELSE t
          [] t.tag = "Lam" -> Lam(scope(t.scope))
          [] t.tag = "Pi" -> Pi(scope(t.scope))
          [] t.tag = "App" -> App(AlphaRename(t.fn, from, to),
                                  AlphaRename(t.arg, from, to))
          [] t.tag = "Ann" -> Ann(AlphaRename(t.expr, from, to),
                                  AlphaRename(t.type, from, to))

RECURSIVE BinderNames(_)

\* The names of the binders of a term.
BinderNames(t) ==
    LET scope(sc) ==
            {sc.unsafe_param.name}
            \cup (IF sc.unsafe_param.val.tag = "None" THEN {}
                  ELSE IF sc.unsafe_param.val.tag = "Some"
                  THEN BinderNames(sc.unsafe_param.val.val)
                  ELSE BinderNames(sc.unsafe_param.val))
            \cup BinderNames(sc.unsafe_body)
    IN  CASE t.tag \in {"Universe", "Var"} -> {}
          [] t.tag \in {"Lam", "Pi"} -> scope(t.scope)
          [] t.tag = "App" -> BinderNames(t.fn) \cup BinderNames(t.arg)
          [] t.tag = "Ann" -> BinderNames(t.expr) \cup BinderNames(t.type)

RECURSIVE FreeNames(_)

\* The names of the free variables of a term.
FreeNames(t) ==
    LET scope(sc) ==
            (IF sc.unsafe_param.val.tag = "None" THEN {}
             ELSE IF sc.unsafe_param.val.tag = "Some"
             THEN FreeNames(sc.unsafe_param.val.val)
             ELSE FreeNames(sc.unsafe_param.val))
            \cup FreeNames(sc.unsafe_body)
    IN  CASE t.tag = "Universe" -> {}
          [] t.tag = "Var" -> IF t.var.tag = "Free" THEN {t.var.name} ELSE {}
          [] t.tag \in {"Lam", "Pi"} -> scope(t.scope)
          [] t.tag = "App" -> FreeNames(t.fn) \cup FreeNames(t.arg)
          [] t.tag = "Ann" -> FreeNames(t.expr) \cup FreeNames(t.type)

X == User("x")

Y == User("y")

Z == User("z")

EngAtoms == {Universe(0), Var(Free(X)), Var(Free(Y))}

EngLamBinders == {X, Y}

EngLamAnns == {None, Some(Universe(0))}

EngPiBinders == {X, Abstract}

EngPiAnns == {Universe(0), Var(Free(Y))}

\* Universe(1) -> Universe(1)
ArrowU1 == Pi(ScopeBind(Named(Abstract, Universe(1)), Universe(1)))

EngAnnTypes == {Universe(1), ArrowU1}

RECURSIVE EngTerms(_)

\* The terms of at most k constructors over an atom, binders made by bind.
EngTerms(k) ==
    IF k = 0 THEN EngAtoms
    ELSE LET S == EngTerms(k - 1)
         IN  S \cup {Lam(ScopeBind(Named(n, a), b)) :
                        n \in EngLamBinders, a \in EngLamAnns, b \in S}
               \cup {Pi(ScopeBind(Named(n, a), b)) :
                        n \in EngPiBinders, a \in EngPiAnns, b \in S}
               \cup {App(f, a) : f \in S, a \in EngAtoms}
               \cup {Ann(e, ty) : e \in S, ty \in EngAnnTypes}

\* Applications of an annotated function of type Universe(1) -> Universe(1).
EngRedexes == {App(Ann(f, ArrowU1), a) : f \in EngTerms(1), a \in EngAtoms}

\* Universe(0) -> Universe(0)
ArrowU0 == Pi(ScopeBind(Named(Abstract, Universe(0)), Universe(0)))

\* (\(x : Universe(0)). x : Universe(0) -> Universe(0)) Universe(0)
AppAscribedIdU0 ==
    App(Ann(Lam(ScopeBind(Named(X, Some(Universe(0))), Var(Free(X)))),
            ArrowU0),
        Universe(0))

\* (x : Universe(0)) -> (n : x) -> b: the inner parameter's type is the
\* outer parameter.
EngDependentPis ==
    {Pi(ScopeBind(Named(X, Universe(0)),
                  Pi(ScopeBind(Named(n, Var(Free(X))), b)))) :
        n \in EngPiBinders, b \in {Universe(0), Var(Free(X))}}

\* (x : Universe(0)) -> (a : x): the body ascribes the parameter, as a
\* type, to an atom.
EngAscribedPis ==
    {Pi(ScopeBind(Named(X, Universe(0)), Ann(a, Var(Free(X))))) :
        a \in EngAtoms}

\* The terms handed to the engine.
EngInputs ==
    EngTerms(MaxDepth) \cup EngRedexes \cup {AppAscribedIdU0}
        \cup EngDependentPis \cup EngAscribedPis

\* The empty context; y defined as Universe(0) : Universe(1); and z declared
\* a type, with y declared of type z.
EngContexts ==
    {<<>>,
     <<Entry(Y, Universe(1), Some(Universe(0)))>>,
     <<Entry(Z, Universe(0), None), Entry(Y, Var(Free(Z)), None)>>}

EngExpecteds == {Universe(0), ArrowU1}

CtxNames(ctx) == {ctx[i].name : i \in 1..Len(ctx)}

NoEngOp == [op |-> "none"]

\* semantics::infer(&eng_ctx, &eng_term)
DoInfer ==
    /\ eng_out = NoEngOp
    /\ eng_out' = [op |-> "infer", result |-> Infer(eng_ctx, eng_term)]
    /\ UNCHANGED <<eng_ctx, eng_term>>

\* semantics::check(&eng_ctx, &eng_term, &expected)
DoCheck ==
    /\ eng_out = NoEngOp
    /\ \E expected \in EngExpecteds :
          eng_out' = [op |-> "check", expected |-> expected,
                      result |-> Check(eng_ctx, eng_term, expected)]
    /\ UNCHANGED <<eng_ctx, eng_term>>

\* semantics::normalize(&eng_ctx, &eng_term)
DoNormalize ==
    /\ eng_out = NoEngOp
    /\ eng_out' = [op |-> "normalize", result |-> Normalize(eng_ctx, eng_term)]
    /\ UNCHANGED <<eng_ctx, eng_term>>

\* semantics::normalize on the term and again on its result, with the
\* result of semantics::infer on the term.
DoNormalizeTwice ==
    /\ eng_out = NoEngOp
    /\ LET first == Normalize(eng_ctx, eng_term)
       IN  eng_out' = [op |-> "normalize_twice",
                       infer |-> Infer(eng_ctx, eng_term),
                       first |-> first,
                       second |-> IF first.tag = "Ok"
                                  THEN Normalize(eng_ctx, first.val)
                                  ELSE first]
    /\ UNCHANGED <<eng_ctx, eng_term>>

\* infer and normalize on the term and on the term with a parameter renamed
\* to any other user name, whether or not the term or the context uses it.
DoRename ==
    /\ eng_out = NoEngOp
    /\ \E from \in BinderNames(eng_term) : \E to \in {X, Y, Z} \ {from} :
          LET renamed == AlphaRename(eng_term, from, to)
          IN  eng_out' = [op |-> "rename", from |-> from, to |-> to,
                          renamed |-> renamed,
                          infer1 |-> Infer(eng_ctx, eng_term),
                          infer2 |-> Infer(eng_ctx, renamed),
                          norm1 |-> Normalize(eng_ctx, eng_term),
                          norm2 |-> Normalize(eng_ctx, renamed)]
    /\ UNCHANGED <<eng_ctx, eng_term>>

(***************************************************************************)
(* Errors handed to the conversions of errors.rs, with every span drawn    *)
(* from the spans of a short source line.                                  *)
(***************************************************************************)
Spans == {ByteSpan(lo, hi) : lo \in 0..MaxSpan, hi \in 0..MaxSpan} \ 
             {ByteSpan(lo, hi) : lo \in 1..MaxSpan, hi \in 0..(MaxSpan - 1)}

ErrTypes == {Universe(0), ArrowU1}

InternalErrors ==
    {[UnsubstitutedDebruijnIndex(n, i) EXCEPT !.span = s] :
        n \in Names, i \in 0..MaxIndex, s \in Spans}
    \cup {[InternalUndefinedName(n) EXCEPT !.var_span = s] :
            n \in Names, s \in Spans}

TypeErrors ==
    {[NotAFunctionType(f) EXCEPT !.fn_span = s, !.arg_span = a] :
        f \in ErrTypes, s \in Spans, a \in Spans}
    \cup {[FunctionParamNeedsAnnotation(n) EXCEPT !.param_span = s, !.var_span = v] :
            n \in Names, s \in Spans, v \in {None} \cup {Some(x) : x \in Spans}}
    \cup {[Mismatch(f, e) EXCEPT !.span = s] :
            f \in ErrTypes, e \in ErrTypes, s \in Spans}
    \cup {[UnexpectedFunction(e) EXCEPT !.span = s] : e \in ErrTypes, s \in Spans}
    \cup {[ExpectedUniverse(f) EXCEPT !.span = s] : f \in ErrTypes, s \in Spans}
    \cup {[UndefinedName(n) EXCEPT !.var_span = s] : n \in Names, s \in Spans}
    \cup {Internal(e) : e \in InternalErrors}

\* TypeError::from(src)
DoFrom ==
    \E src \in InternalErrors :
        diag' = [op |-> "from", input |-> src, output |-> TypeErrorFrom(src)]

\* InternalError::to_diagnostic(&e)
DoInternalToDiagnostic ==
    \E e \in InternalErrors :
        diag' = [op |-> "internal_to_diagnostic", input |-> e,
                 output |-> InternalErrorToDiagnostic(e)]

\* TypeError::to_diagnostic(&e)
DoTypeToDiagnostic ==
    \E e \in TypeErrors :
        diag' = [op |-> "type_to_diagnostic", input |-> e,
                 output |-> TypeErrorToDiagnostic(e)]

(***************************************************************************)
(* The REPL (src/src/cli/repl.rs).  A line is what parse::repl_command     *)
(* returns for it: a command and the parse errors.                         *)
(***************************************************************************)
Continue == "Continue"

Break == "Break"

\* EvalPrintError::Parse
EvalPrintParse(errs) == [tag |-> "Parse", errs |-> errs]

\* EvalPrintError::Type
EvalPrintType(err) == [tag |-> "Type", err |-> err]

HELP_TEXT ==
    <<"",
      "Command       Arguments   Purpose",
      "",
      "<expr>                    evaluate a term",
      ":? :h :help               display this help text",
      ":q :quit                  quit the repl",
      ":t :type      <expr>      infer the type of an expression",
      "">>

\* A call of the engine as eval_print makes it.
EngineCall(fn, ctx, t, result) ==
    [fn |-> fn, ctx |-> ctx, term |-> t, result |-> result]

\* parse::ParseError::to_diagnostic
ParseErrorToDiagnostic(err) ==
    [severity |-> "Error", message |-> Format(err, <<>>), labels |-> <<>>]

\* eval_print past its parse, given what semantics::infer and
\* semantics::normalize return for the command's term when they are called:
\* the result, the engine calls made in order, and what was printed.
EvalCommand(cmd, context, inferred, evaluated) ==
    LET inferCall == EngineCall("infer", context, cmd.term, inferred)
        normalizeCall == EngineCall("normalize", context, cmd.term, evaluated)
    IN  CASE cmd.tag = "Help" ->
                [result |-> Ok(Continue), calls |-> <<>>, printed |-> HELP_TEXT]
          [] cmd.tag = "Eval" ->
                IF inferred.tag = "Err"
                THEN [result |-> Err(EvalPrintType(inferred.err)),
                      calls |-> <<inferCall>>, printed |-> <<>>]
                ELSE IF evaluated.tag = "Err"
                THEN [result |-> Err(EvalPrintType(evaluated.err)),
                      calls |-> <<inferCall, normalizeCall>>,
                      printed |-> <<>>]
                ELSE [result |-> Ok(Continue),
                      calls |-> <<inferCall, normalizeCall>>,
                      printed |-> <<[doc |-> "pretty_ann",
                                     term |-> evaluated.val,
                                     type |-> inferred.val.type]>>]
          [] cmd.tag = "TypeOf" ->
                IF inferred.tag = "Err"
                THEN [result |-> Err(EvalPrintType(inferred.err)),
                      calls |-> <<inferCall>>, printed |-> <<>>]
                ELSE [result |-> Ok(Continue), calls |-> <<inferCall>>,
                      printed |-> <<[doc |-> "to_doc",
                                     type |-> inferred.val.type]>>]
          [] cmd.tag \in {"NoOp", "Error"} ->
                [result |-> Ok(Continue), calls |-> <<>>, printed |-> <<>>]
          [] cmd.tag = "Quit" ->
                [result |-> Ok(Break), calls |-> <<>>, printed |-> <<>>]

\* An Eval that evaluates before it infers and prints what it has.
EvalCommandUngated(cmd, context, inferred, evaluated) ==
    IF cmd.tag = "Eval"
    THEN [result |-> IF inferred.tag = "Err"
                     THEN Err(EvalPrintType(inferred.err)) ELSE Ok(Continue),
          calls |-> <<EngineCall("normalize", context, cmd.term, evaluated),
                      EngineCall("infer", context, cmd.term, inferred)>>,
          printed |-> <<[doc |-> "pretty_ann", term |-> evaluated,
                         type |-> inferred]>>]
    ELSE EvalCommand(cmd, context, inferred, evaluated)

\* eval_print that goes on to the command whatever the parse returned.
EvalPrintUngated(line) ==
    EvalCommandUngated(line.command, <<>>, Infer(<<>>, line.command.term),
                       Normalize(<<>>, line.command.term))

\* eval_print: parse errors are returned before anything else is done, and
\* a command is run in a new, empty Context.
EvalPrint(line) ==
    IF line.parse_errors # <<>>
    THEN [result |-> Err(EvalPrintParse(line.parse_errors)),
          calls |-> <<>>, printed |-> <<>>]
    ELSE EvalCommand(line.command, <<>>, Infer(<<>>, line.command.term),
                     Normalize(<<>>, line.command.term))

\* The diagnostics run emits for what eval_print returned.
Emitted(result) ==
    IF result.tag = "Ok" THEN <<>>
    ELSE IF result.err.tag = "Parse"
    THEN [i \in 1..Len(result.err.errs) |->
             ParseErrorToDiagnostic(result.err.errs[i])]
    ELSE <<TypeErrorToDiagnostic(result.err.err)>>

\* A loop that also ends when eval_print returns an error.
AfterEvalPrintAborting(result) ==
    IF result.tag = "Ok" /\ result.val = Continue THEN "loop" ELSE "after_loop"

\* Where run stands after the match on eval_print's result.
AfterEvalPrint(result) ==
    IF result.tag = "Ok" /\ result.val = Break THEN "after_loop" ELSE "loop"

\* Where run stands after the match on a readline error.
AfterReadlineError(err) == IF err = "Interrupted" THEN "loop" ELSE "after_loop"

(***************************************************************************)
(* Lines and readline errors handed to the REPL.                           *)
(***************************************************************************)
ParseErrors == {"IdentifierExpectedInPiType", "IntegerLiteralOverflow"}

RECURSIVE ParseErrorLists(_)

\* The lists of at most n parse errors.
ParseErrorLists(n) ==
    IF n = 0 THEN {<<>>}
    ELSE LET S == ParseErrorLists(n - 1)
         IN  S \cup {Append(l, e) : l \in S, e \in ParseErrors}

\* Core terms as to_core hands them to the engine: a universe, an undefined
\* name, \x. x, an annotated universe, an annotated identity applied to a
\* universe, and a term with an index no binder resolves.
ReplTerms ==
    {Universe(0),
     Var(Free(X)),
     Lam(ScopeBind(Named(X, None), Var(Free(X)))),
     Ann(Universe(0), Universe(1)),
     App(Ann(Lam(ScopeBind(Named(X, None), Var(Free(X)))), ArrowU1), Universe(0)),
     Var(Bound(Named(X, ZERO)))}

ReplCommands ==
    {[tag |-> c, term |-> Universe(0)] : c \in {"Help", "NoOp", "Quit", "Error"}}
    \cup {[tag |-> c, term |-> t] : c \in {"Eval", "TypeOf"}, t \in ReplTerms}

ReplLines ==
    {[command |-> c, parse_errors |-> errs] :
        c \in ReplCommands, errs \in ParseErrorLists(MaxParseErrors)}

ReadlineErrors == {"Interrupted", "Eof", "Io"}

\* run up to its loop: the history is loaded when a file is configured,
\* and a failure to load it is returned.
LoadHistory ==
    /\ repl_pc = "start"
    /\ \/ /\ repl_pc' = "loop"
          /\ run_result' = None
       \/ /\ history_file
          /\ repl_pc' = "returned"
          /\ run_result' = Some(Err("load_history"))
    /\ UNCHANGED <<history_file, repl_last, lines_read, history_adds,
                   history_save, emitted_total>>

\* One turn of the loop in which rl.readline returns a line.
ReadLineOk ==
    /\ repl_pc = "loop"
    /\ lines_read < MaxLines
    /\ \E line \in ReplLines :
          \E eval \in {EvalPrint(line)} :
              /\ repl_last' = [kind |-> "line", line |-> line, eval |-> eval,
                               emitted |-> Emitted(eval.result)]
              /\ emitted_total' = emitted_total + Len(Emitted(eval.result))
              /\ repl_pc' = AfterEvalPrint(eval.result)
    /\ lines_read' = lines_read + 1
    /\ history_adds' = IF history_file THEN history_adds + 1 ELSE history_adds
    /\ UNCHANGED <<history_file, history_save, run_result>>

\* One turn of the loop in which rl.readline returns an error.  The input
\* ends after MaxLines turns, so only Eof or an I/O error comes after them.
ReadLineErr ==
    /\ repl_pc = "loop"
    /\ \E err \in ReadlineErrors :
          /\ err = "Interrupted" => lines_read < MaxLines
          /\ repl_last' = [kind |-> "readline_error", err |-> err]
          /\ repl_pc' = AfterReadlineError(err)
          /\ lines_read' = IF err = "Interrupted" THEN lines_read + 1
                           ELSE lines_read
    /\ UNCHANGED <<history_file, history_adds, history_save, emitted_total,
                   run_result>>

\* run after its loop: the history is saved when a file is configured, a
\* failure to save it is returned, and otherwise run returns Ok(()).
SaveHistory ==
    /\ repl_pc = "after_loop"
    /\ repl_pc' = "returned"
    /\ \/ /\ history_save' = IF history_file THEN "ok" ELSE "none"
          /\ run_result' = Some(Ok(<<>>))
       \/ /\ history_file
          /\ history_save' = "failed"
          /\ run_result' = Some(Err("save_history"))
    /\ UNCHANGED <<history_file, repl_last, lines_read, history_adds,
                   emitted_total>>

(***************************************************************************)
(* Equality, applied to operands drawn from bounded sets.                  *)
(***************************************************************************)
Indices == 0..MaxIndex

NamedIndices == {Named(n, i) : n \in Names, i \in Indices}

Vars == {Free(n) : n \in Names} \cup {Bound(nd) : nd \in NamedIndices}

CompareNames ==
    \E a \in Names, b \in Names :
        cmp' = [kind |-> "Name", lhs |-> a, rhs |-> b, result |-> NameEq(a, b)]

CompareNamed ==
    \E a \in NamedIndices, b \in NamedIndices :
        cmp' = [kind |-> "Named", lhs |-> a, rhs |-> b, result |-> NamedEq(a, b)]

CompareVars ==
    \E a \in Vars, b \in Vars :
        cmp' = [kind |-> "Var", lhs |-> a, rhs |-> b, result |-> VarEq(a, b)]

(***************************************************************************)
(* FreshGen and the Debruijn arithmetic, as a caller drives them.          *)
(***************************************************************************)
\* The generator reaches u32::MAX only after 2^32 - 1 calls; NearWrap is the
\* counter three calls before that.
NearWrap == U32Max - 3

\* The calls explored: MaxCalls from either initial counter.
CallsInBound ==
    IF gen_calls.carry \/ gen_calls.low >= 0
    THEN gen_calls.low < MaxCalls
    ELSE TRUE

CountCall(c) ==
    [carry |-> c.carry \/ c.low = U32Max, low |-> WrappingSucc(c.low)]

\* next_gen returning the counter after the increment, not before it.
NextGenPreIncrement ==
    /\ ~panicked
    /\ CallsInBound
    /\ IF overflow_checks /\ next_gen = U32Max
       THEN /\ panicked' = TRUE
            /\ UNCHANGED <<next_gen, gen_calls, gen_last, gen_prev>>
       ELSE /\ next_gen' = WrappingSucc(next_gen)
            /\ gen_last' = Some(WrappingSucc(next_gen))
            /\ gen_prev' = gen_last
            /\ gen_calls' = CountCall(gen_calls)
            /\ UNCHANGED panicked
    /\ UNCHANGED <<index, index_op, index_prev_op, overflow_checks>>

\* FreshGen::next_gen
NextGen ==
    /\ ~panicked
    /\ CallsInBound
    /\ IF overflow_checks /\ next_gen = U32Max
       THEN /\ panicked' = TRUE
            /\ UNCHANGED <<next_gen, gen_calls, gen_last, gen_prev>>
       ELSE /\ next_gen' = WrappingSucc(next_gen)
            /\ gen_last' = Some(next_gen)
            /\ gen_prev' = gen_last
            /\ gen_calls' = CountCall(gen_calls)
            /\ UNCHANGED panicked
    /\ UNCHANGED <<index, index_op, index_prev_op, overflow_checks>>

NoIndexOp == [op |-> "none"]

\* The indices explored: within MaxCalls of 0 and of NearWrap.
IndexInBound == index < MaxCalls

PredInBound == index >= 0 \/ index > NearWrap - MaxCalls

\* index = index.succ()
Succ ==
    /\ ~panicked
    /\ IndexInBound
    /\ index_prev_op' = index_op
    /\ IF overflow_checks /\ SuccOverflows(index)
       THEN /\ panicked' = TRUE
            /\ index_op' = [op |-> "succ", arg |-> index, res |-> None]
            /\ UNCHANGED index
       ELSE /\ index' = DebruijnSucc(index)
            /\ index_op' = [op |-> "succ", arg |-> index,
                            res |-> Some(DebruijnSucc(index))]
            /\ UNCHANGED panicked
    /\ UNCHANGED <<next_gen, gen_calls, gen_last, gen_prev, overflow_checks>>

\* if let Some(p) = index.pred() { index = p }
Pred ==
    /\ ~panicked
    /\ PredInBound
    /\ index_prev_op' = index_op
    /\ index_op' = [op |-> "pred", arg |-> index, res |-> DebruijnPred(index)]
    /\ index' = IF IsSome(DebruijnPred(index)) THEN DebruijnPred(index).val
                ELSE index
    /\ UNCHANGED <<next_gen, gen_calls, gen_last, gen_prev, overflow_checks,
                   panicked>>

(***************************************************************************)
(* Specifications                                                          *)
(***************************************************************************)
\* Terms start from a free variable or a universe; nothing has been compared;
\* the generator is as FreshGen::new() leaves it.
Init ==
    /\ overflow_checks \in BOOLEAN
    /\ term \in Atoms
    /\ bc_op = NoOp
    /\ opened = None
    /\ eng_ctx = <<>>
    /\ eng_term = Universe(0)
    /\ eng_out = NoEngOp
    /\ cmp = [kind |-> "none"]
    /\ next_gen = 0
    /\ gen_calls = [carry |-> FALSE, low |-> 0]
    /\ gen_last = None
    /\ gen_prev = None
    /\ index = ZERO
    /\ index_op = NoIndexOp
    /\ index_prev_op = NoIndexOp
    /\ panicked = FALSE
    /\ diag = [op |-> "none"]
    /\ history_file = FALSE
    /\ repl_pc = "start"
    /\ repl_last = [kind |-> "none"]
    /\ lines_read = 0
    /\ history_adds = 0
    /\ history_save = "none"
    /\ emitted_total = 0
    /\ run_result = None

NextBind ==
    \/ MkApp /\ UNCHANGED <<varsEng, varsEq, varsGenBuild, varsDiag, varsRepl>>
    \/ MkAnn /\ UNCHANGED <<varsEng, varsEq, varsGenBuild, varsDiag, varsRepl>>
    \/ MkLam /\ UNCHANGED <<varsEng, varsEq, varsGenBuild, varsDiag, varsRepl>>
    \/ MkPi /\ UNCHANGED <<varsEng, varsEq, varsGenBuild, varsDiag, varsRepl>>
    \/ DoClose /\ UNCHANGED <<varsEng, varsEq, varsGenBuild, varsDiag, varsRepl>>
    \/ DoClose0 /\ UNCHANGED <<varsEng, varsEq, varsGenBuild, varsDiag, varsRepl>>
    \/ DoOpen /\ UNCHANGED <<varsEng, varsEq, varsGenBuild, varsDiag, varsRepl>>

Spec == Init /\ [][NextBind]_vars

InitEq ==
    /\ term = Universe(0)
    /\ bc_op = NoOp
    /\ opened = None
    /\ eng_ctx = <<>>
    /\ eng_term = Universe(0)
    /\ eng_out = NoEngOp
    /\ cmp = [kind |-> "none"]
    /\ next_gen = 0
    /\ gen_calls = [carry |-> FALSE, low |-> 0]
    /\ gen_last = None
    /\ gen_prev = None
    /\ index = ZERO
    /\ index_op = NoIndexOp
    /\ index_prev_op = NoIndexOp
    /\ overflow_checks = TRUE
    /\ panicked = FALSE
    /\ diag = [op |-> "none"]
    /\ history_file = FALSE
    /\ repl_pc = "start"
    /\ repl_last = [kind |-> "none"]
    /\ lines_read = 0
    /\ history_adds = 0
    /\ history_save = "none"
    /\ emitted_total = 0
    /\ run_result = None

NextEq ==
    \/ CompareNames /\ UNCHANGED <<varsBind, varsEng, varsGen, varsDiag, varsRepl>>
    \/ CompareNamed /\ UNCHANGED <<varsBind, varsEng, varsGen, varsDiag, varsRepl>>
    \/ CompareVars /\ UNCHANGED <<varsBind, varsEng, varsGen, varsDiag, varsRepl>>

SpecEq == InitEq /\ [][NextEq]_vars

\* FreshGen::new() gives next_gen = 0.  The second family of initial states
\* is the generator after NearWrap calls have returned, which is where a u32
\* counter that started at 0 stands three calls before u32::MAX.  gen_calls
\* counts past 2^32: `low` is the count modulo 2^32 and `carry` says that
\* 2^32 calls or more have returned.  The build either checks overflow or
\* does not.
InitGen ==
    /\ term = Universe(0)
    /\ bc_op = NoOp
    /\ opened = None
    /\ eng_ctx = <<>>
    /\ eng_term = Universe(0)
    /\ eng_out = NoEngOp
    /\ cmp = [kind |-> "none"]
    /\ overflow_checks \in BOOLEAN
    /\ panicked = FALSE
    /\ diag = [op |-> "none"]
    /\ history_file = FALSE
    /\ repl_pc = "start"
    /\ repl_last = [kind |-> "none"]
    /\ lines_read = 0
    /\ history_adds = 0
    /\ history_save = "none"
    /\ emitted_total = 0
    /\ run_result = None
    /\ \/ /\ next_gen = 0
          /\ gen_calls = [carry |-> FALSE, low |-> 0]
          /\ gen_last = None
          /\ gen_prev = None
       \/ /\ next_gen = NearWrap
          /\ gen_calls = [carry |-> FALSE, low |-> NearWrap]
          /\ gen_last = Some(NearWrap - 1)
          /\ gen_prev = Some(NearWrap - 2)
    /\ index \in {ZERO, NearWrap}
    /\ index_op = NoIndexOp
    /\ index_prev_op = NoIndexOp

NextGenOps ==
    \/ NextGen /\ UNCHANGED <<varsBind, varsEng, varsEq, varsDiag, varsRepl>>
    \/ Succ /\ UNCHANGED <<varsBind, varsEng, varsEq, varsDiag, varsRepl>>
    \/ Pred /\ UNCHANGED <<varsBind, varsEng, varsEq, varsDiag, varsRepl>>

SpecGen == InitGen /\ [][NextGenOps]_vars

InitEngine ==
    /\ overflow_checks = TRUE
    /\ term = Universe(0)
    /\ bc_op = NoOp
    /\ opened = None
    /\ eng_ctx \in EngContexts
    /\ eng_term \in EngInputs
    /\ eng_out = NoEngOp
    /\ cmp = [kind |-> "none"]
    /\ next_gen = 0
    /\ gen_calls = [carry |-> FALSE, low |-> 0]
    /\ gen_last = None
    /\ gen_prev = None
    /\ index = ZERO
    /\ index_op = NoIndexOp
    /\ index_prev_op = NoIndexOp
    /\ panicked = FALSE
    /\ diag = [op |-> "none"]
    /\ history_file = FALSE
    /\ repl_pc = "start"
    /\ repl_last = [kind |-> "none"]
    /\ lines_read = 0
    /\ history_adds = 0
    /\ history_save = "none"
    /\ emitted_total = 0
    /\ run_result = None

NextEngine ==
    \/ DoInfer /\ UNCHANGED <<varsBind, varsEq, varsGen, varsDiag, varsRepl>>
    \/ DoCheck /\ UNCHANGED <<varsBind, varsEq, varsGen, varsDiag, varsRepl>>
    \/ DoNormalize /\ UNCHANGED <<varsBind, varsEq, varsGen, varsDiag, varsRepl>>
    \/ DoNormalizeTwice /\ UNCHANGED <<varsBind, varsEq, varsGen, varsDiag, varsRepl>>
    \/ DoRename /\ UNCHANGED <<varsBind, varsEq, varsGen, varsDiag, varsRepl>>

SpecEngine == InitEngine /\ [][NextEngine]_vars

InitDiag ==
    /\ term = Universe(0)
    /\ bc_op = NoOp
    /\ opened = None
    /\ eng_ctx = <<>>
    /\ eng_term = Universe(0)
    /\ eng_out = NoEngOp
    /\ cmp = [kind |-> "none"]
    /\ next_gen = 0
    /\ gen_calls = [carry |-> FALSE, low |-> 0]
    /\ gen_last = None
    /\ gen_prev = None
    /\ index = ZERO
    /\ index_op = NoIndexOp
    /\ index_prev_op = NoIndexOp
    /\ overflow_checks = TRUE
    /\ panicked = FALSE
    /\ diag = [op |-> "none"]
    /\ history_file = FALSE
    /\ repl_pc = "start"
    /\ repl_last = [kind |-> "none"]
    /\ lines_read = 0
    /\ history_adds = 0
    /\ history_save = "none"
    /\ emitted_total = 0
    /\ run_result = None

NextDiag ==
    \/ DoFrom /\ UNCHANGED <<varsBind, varsEng, varsEq, varsGen, varsRepl>>
    \/ DoInternalToDiagnostic /\ UNCHANGED <<varsBind, varsEng, varsEq, varsGen, varsRepl>>
    \/ DoTypeToDiagnostic /\ UNCHANGED <<varsBind, varsEng, varsEq, varsGen, varsRepl>>

SpecDiag == InitDiag /\ [][NextDiag]_vars

InitRepl ==
    /\ term = Universe(0)
    /\ bc_op = NoOp
    /\ opened = None
    /\ eng_ctx = <<>>
    /\ eng_term = Universe(0)
    /\ eng_out = NoEngOp
    /\ cmp = [kind |-> "none"]
    /\ next_gen = 0
    /\ gen_calls = [carry |-> FALSE, low |-> 0]
    /\ gen_last = None
    /\ gen_prev = None
    /\ index = ZERO
    /\ index_op = NoIndexOp
    /\ index_prev_op = NoIndexOp
    /\ overflow_checks = TRUE
    /\ panicked = FALSE
    /\ diag = [op |-> "none"]
    /\ history_file \in BOOLEAN
    /\ repl_pc = "start"
    /\ repl_last = [kind |-> "none"]
    /\ lines_read = 0
    /\ history_adds = 0
    /\ history_save = "none"
    /\ emitted_total = 0
    /\ run_result = None

NextRepl ==
    \/ LoadHistory /\ UNCHANGED <<varsBind, varsEng, varsEq, varsGen, varsDiag>>
    \/ ReadLineOk /\ UNCHANGED <<varsBind, varsEng, varsEq, varsGen, varsDiag>>
    \/ ReadLineErr /\ UNCHANGED <<varsBind, varsEng, varsEq, varsGen, varsDiag>>
    \/ SaveHistory /\ UNCHANGED <<varsBind, varsEng, varsEq, varsGen, varsDiag>>

SpecRepl == InitRepl /\ [][NextRepl]_vars

(***************************************************************************)
(* Properties                                                              *)
(***************************************************************************)

RECURSIVE Occ(_, _)

\* The variables of a term in reading order, each with the number of Scope
\* bodies it sits under, counted from depth d at the root.
Occ(t, d) ==
    CASE t.tag = "Universe" -> <<>>
      [] t.tag = "Var" -> <<[depth |-> d, var |-> t.var]>>
      [] t.tag = "Lam" ->
            (IF IsSome(t.scope.unsafe_param.val)
             THEN Occ(t.scope.unsafe_param.val.val, d) ELSE <<>>)
            \o Occ(t.scope.unsafe_body, d + 1)
      [] t.tag = "Pi" ->
            Occ(t.scope.unsafe_param.val, d) \o Occ(t.scope.unsafe_body, d + 1)
      [] t.tag = "App" -> Occ(t.fn, d) \o Occ(t.arg, d)
      [] t.tag = "Ann" -> Occ(t.expr, d) \o Occ(t.type, d)

\* A term with every variable blanked: what is left is its structure.
Blank == Var(Free(Abstract))

RECURSIVE Skeleton(_)

Skeleton(t) ==
    CASE t.tag = "Universe" -> t
      [] t.tag = "Var" -> Blank
      [] t.tag = "Lam" ->
            Lam(Scope(Named(t.scope.unsafe_param.name,
                            IF IsSome(t.scope.unsafe_param.val)
                            THEN Some(Skeleton(t.scope.unsafe_param.val.val))
                            ELSE None),
                      Skeleton(t.scope.unsafe_body)))
      [] t.tag = "Pi" ->
            Pi(Scope(Named(t.scope.unsafe_param.name,
                           Skeleton(t.scope.unsafe_param.val)),
                     Skeleton(t.scope.unsafe_body)))
      [] t.tag = "App" -> App(Skeleton(t.fn), Skeleton(t.arg))
      [] t.tag = "Ann" -> Ann(Skeleton(t.expr), Skeleton(t.type))

RECURSIVE WrappingAdd(_, _)

\* A u32 after d wrapping increments.
WrappingAdd(level, d) ==
    IF d = 0 THEN level ELSE WrappingAdd(WrappingSucc(level), d - 1)

\* level + d does not fit a u32.
SumOverflows(level, d) == U32Lt(WrappingAdd(level, d), level)

\* The occurrence is a free variable that the closure of bc_op binds.
Closed(occ) ==
    occ.var.tag = "Free" /\ IsSome(bc_op.on_free[occ.var.name])

\* C1 as stated: closing is relative to binder depth: close returns, and a
\* free variable for which on_free gives Some(level) and which sits under d
\* Scope bodies of the closed term becomes Bound at level + d, under its own
\* name.
CloseIsRelative ==
    bc_op.kind # "none" =>
        /\ ~Panicked(bc_op.after)
        /\ LET b == Occ(bc_op.before, 0)
               a == Occ(bc_op.after, 0)
           IN  /\ Len(a) = Len(b)
               /\ \A i \in 1..Len(b) :
                     Closed(b[i]) =>
                         LET level == bc_op.on_free[b[i].var.name].val
                         IN  /\ ~SumOverflows(level, b[i].depth)
                             /\ a[i].var = Bound(Named(b[i].var.name,
                                     WrappingAdd(level, b[i].depth)))

\* C1 as amended: the same whenever level + d fits a u32 for every variable
\* that close binds; when one of the sums exceeds u32::MAX, close panics in
\* a build with overflow checks, and in a build without them it returns
\* with that variable Bound at level + d - 2^32.
CloseIsRelativeBelowMax ==
    bc_op.kind # "none" =>
        LET b == Occ(bc_op.before, 0)
            overflowing ==
                \E i \in 1..Len(b) :
                    /\ Closed(b[i])
                    /\ SumOverflows(bc_op.on_free[b[i].var.name].val, b[i].depth)
        IN  IF overflow_checks /\ overflowing
            THEN Panicked(bc_op.after) /\ panicked
            ELSE /\ ~Panicked(bc_op.after)
                 /\ ~panicked
                 /\ Len(Occ(bc_op.after, 0)) = Len(b)
                 /\ \A i \in 1..Len(b) :
                       Closed(b[i]) =>
                           Occ(bc_op.after, 0)[i].var =
                               Bound(Named(b[i].var.name,
                                   WrappingAdd(bc_op.on_free[b[i].var.name].val,
                                               b[i].depth)))

\* \x. \y. x built with Scope::bind: x is Bound at level 1 in the inner body.
LamXLamYX ==
    /\ bc_op.kind = "bind"
    /\ term = Lam(Scope(Named(User("x"), None),
                        Lam(Scope(Named(User("y"), None),
                                  Var(Bound(Named(User("x"), 1)))))))

\* C2: a close that returns leaves alone every Free variable for which
\* on_free gives None and every Bound variable, and nothing but variables
\* changes; close0(name) returns and changes nothing in a term with no free
\* occurrence of name.
CloseLeavesOthers ==
    /\ bc_op.kind = "close0" => ~Panicked(bc_op.after)
    /\ (bc_op.kind # "none" /\ ~Panicked(bc_op.after)) =>
        LET b == Occ(bc_op.before, 0)
            a == Occ(bc_op.after, 0)
        IN  /\ Skeleton(bc_op.after) = Skeleton(bc_op.before)
            /\ Len(a) = Len(b)
            /\ \A i \in 1..Len(b) :
                  (b[i].var.tag = "Bound" \/ bc_op.on_free[b[i].var.name] = None)
                    => a[i].var = b[i].var
            /\ (bc_op.kind = "close0"
                   /\ ~ \E i \in 1..Len(b) : b[i].var = Free(bc_op.name))
                    => bc_op.after = bc_op.before

\* close0 applied to a term that holds a Bound and a Free variable, neither
\* of them the name closed over.
Close0OfOtherName ==
    /\ bc_op.kind = "close0"
    /\ bc_op.after = bc_op.before
    /\ \E i, j \in 1..Len(Occ(bc_op.before, 0)) :
          /\ Occ(bc_op.before, 0)[i].var.tag = "Bound"
          /\ Occ(bc_op.before, 0)[j].var.tag = "Free"

\* C3: a term closed over a free name (close0, Scope::bind) and opened again
\* at level 0 with the variable of that name is the term it was.
CloseOpenRoundTrip == IsSome(opened) => opened.val = bc_op.before

\* A round trip through a close0 that did bind an occurrence under a binder.
RoundTripUnderBinder ==
    /\ IsSome(opened)
    /\ bc_op.kind = "close0"
    /\ bc_op.before.tag = "Lam"
    /\ bc_op.after # bc_op.before
    /\ opened.val = bc_op.before

\* C4: a comparison of names with Abstract on either side is false: Abstract
\* against Abstract (a name compared with itself included), and Abstract
\* against every User and Gen name.
AbstractNeverEqual ==
    (cmp.kind = "Name" /\ (cmp.lhs.tag = "Abstract" \/ cmp.rhs.tag = "Abstract"))
        => cmp.result = FALSE

AbstractComparedWithItself ==
    /\ cmp.kind = "Name"
    /\ cmp.lhs.tag = "Abstract"
    /\ cmp.rhs.tag = "Abstract"
    /\ cmp.result = FALSE

\* C5: Named(n1, a) == Named(n2, b) holds iff a == b, whatever n1 and n2 are,
\* and two Bound variables are equal iff their de Bruijn indices are equal.
NamedEqIgnoresName ==
    /\ cmp.kind = "Named" => (cmp.result <=> cmp.lhs.val = cmp.rhs.val)
    /\ (cmp.kind = "Var" /\ cmp.lhs.tag = "Bound" /\ cmp.rhs.tag = "Bound")
           => (cmp.result <=> cmp.lhs.named.val = cmp.rhs.named.val)

BoundEqualUnderDifferentNames ==
    /\ cmp.kind = "Var"
    /\ cmp.lhs.tag = "Bound"
    /\ cmp.rhs.tag = "Bound"
    /\ cmp.lhs.named.name.tag = "Abstract"
    /\ cmp.rhs.named.name.tag = "Gen"
    /\ cmp.lhs.named.val = cmp.rhs.named.val
    /\ cmp.result = TRUE

\* C6 as stated: after any sequence of calls the latest call, the k-th, has
\* returned GenId(k), and its id is greater than the one returned before it.
GenIdsAlwaysIncrease ==
    IsSome(gen_last) =>
        /\ ~gen_calls.carry \/ gen_calls.low = 0
        /\ gen_last.val = U32Pred(gen_calls.low)
        /\ IsSome(gen_prev) => U32Lt(gen_prev.val, gen_last.val)

\* C6 as amended: the k-th call returns GenId(k), greater than the id returned
\* before it, for every k below 2^32 - 1 (the calls made while the counter
\* is below u32::MAX).
GenIdsIncreaseBelowMax ==
    (IsSome(gen_last) /\ ~gen_calls.carry) =>
        /\ gen_last.val = gen_calls.low - 1
        /\ IsSome(gen_prev) => U32Lt(gen_prev.val, gen_last.val)

ThreeIdsFromNew ==
    /\ gen_calls = [carry |-> FALSE, low |-> 3]
    /\ gen_last = Some(2)
    /\ gen_prev = Some(1)
    /\ next_gen = 3

\* C7 as stated: pred(0) is None, pred(i) is Some(i - 1) for i > 0, succ(i)
\* is i + 1, and pred(succ(d)) is Some(d), for every u32.
SuccPredEveryIndex ==
    /\ (index_op.op = "pred" /\ index_op.arg = 0) => index_op.res = None
    /\ (index_op.op = "pred" /\ index_op.arg # 0)
           => index_op.res = Some(index_op.arg - 1)
    /\ index_op.op = "succ"
           => /\ index_op.arg # U32Max
              /\ index_op.res = Some(index_op.arg + 1)
    /\ (index_op.op = "pred" /\ index_prev_op.op = "succ")
           => index_op.res = Some(index_prev_op.arg)

\* C7 as amended: pred(0) is None, pred(i) is Some(i - 1) for i > 0, and for
\* every d below u32::MAX succ(d) is d + 1 and pred(succ(d)) is Some(d).
SuccPredBelowMax ==
    /\ (index_op.op = "pred" /\ index_op.arg = 0) => index_op.res = None
    /\ (index_op.op = "pred" /\ index_op.arg # 0)
           => index_op.res = Some(index_op.arg - 1)
    /\ (index_op.op = "succ" /\ index_op.arg # U32Max)
           => index_op.res = Some(index_op.arg + 1)
    /\ (index_op.op = "pred" /\ index_prev_op.op = "succ"
           /\ index_prev_op.arg # U32Max)
           => index_op.res = Some(index_prev_op.arg)

PredAfterSucc ==
    /\ index_op.op = "pred"
    /\ index_prev_op.op = "succ"
    /\ index_prev_op.arg = 1
    /\ index_op.res = Some(1)

IdentityLam == Lam(Scope(Named(X, None), Var(Bound(Named(X, 0)))))

AppIdU0 ==
    App(Lam(Scope(Named(X, Some(Universe(0))), Var(Bound(Named(X, 0))))),
        Universe(0))

AppOfAscribedIdMismatches ==
    (eng_ctx = <<>> /\ eng_term = AppAscribedIdU0 /\ eng_out.op = "check"
        /\ eng_out.expected = Universe(0))
        => eng_out.result = Err(Mismatch(Universe(1), Universe(0)))

AppOfAscribedIdChecked ==
    /\ eng_ctx = <<>>
    /\ eng_term = AppAscribedIdU0
    /\ eng_out.op = "check"
    /\ eng_out.expected = Universe(0)

\* PartialEq on Result<(Term, Type), TypeError>
InferResultEq(a, b) ==
    IF a.tag # b.tag THEN FALSE
    ELSE IF a.tag = "Ok"
    THEN TermEq(a.val.term, b.val.term) /\ TermEq(a.val.type, b.val.type)
    ELSE TypeErrorEq(a.err, b.err)

\* PartialEq on Result<Term, TypeError>
NormalizeResultEq(a, b) ==
    IF a.tag # b.tag THEN FALSE
    ELSE IF a.tag = "Ok" THEN TermEq(a.val, b.val)
    ELSE TypeErrorEq(a.err, b.err)

RECURSIVE RenameFree(_, _, _)

\* The term with its free variables named `from` named `to` instead.
RenameFree(t, from, to) ==
    LET scope(sc) ==
            LET p == sc.unsafe_param
            IN  Scope(Named(p.name,
                            IF p.val.tag = "None" THEN p.val
                            ELSE IF p.val.tag = "Some"
                            THEN Some(RenameFree(p.val.val, from, to))
                            ELSE RenameFree(p.val, from, to)),
                      RenameFree(sc.unsafe_body, from, to))
    IN  CASE t.tag = "Universe" -> t
          [] t.tag = "Var" ->
                IF t.var.tag = "Free" /\ t.var.name = from
                THEN Var(Free(to)) ELSE t
          [] t.tag = "Lam" -> Lam(scope(t.scope))
          [] t.tag = "Pi" -> Pi(scope(t.scope))
          [] t.tag = "App" -> App(RenameFree(t.fn, from, to),
                                  RenameFree(t.arg, from, to))
          [] t.tag = "Ann" -> Ann(RenameFree(t.expr, from, to),
                                  RenameFree(t.type, from, to))

\* The error with the name `from` replaced by `to` in its name and in the
\* free variables of its types.
RenameError(e, from, to) ==
    LET ren(n) == IF n = from THEN to ELSE n
    IN  CASE e.tag \in {"NotAFunctionType", "ExpectedUniverse"} ->
                [e EXCEPT !.found = RenameFree(@, from, to)]
          [] e.tag = "Mismatch" ->
                [e EXCEPT !.found = RenameFree(@, from, to),
                          !.expected = RenameFree(@, from, to)]
          [] e.tag = "UnexpectedFunction" ->
                [e EXCEPT !.expected = RenameFree(@, from, to)]
          [] e.tag \in {"FunctionParamNeedsAnnotation", "UndefinedName"} ->
                [e EXCEPT !.name = ren(@)]
          [] e.tag = "Internal" -> [e EXCEPT !.inner.name = ren(@)]

\* The errors are equal, or are once the first speaks of `to` for `from`.
ErrorEqUpToRenaming(a, b, from, to) ==
    TypeErrorEq(a, b) \/ TypeErrorEq(RenameError(a, from, to), b)

\* The new name of the renaming is used nowhere else: it is not free in the
\* term, not the name of a parameter of the term, not a name of the context.
RenamedToUnusedName ==
    eng_out.to \notin FreeNames(eng_term) \cup BinderNames(eng_term)
                        \cup CtxNames(eng_ctx)

RenamedOntoFreeName ==
    /\ eng_out.op = "rename"
    /\ eng_out.to \in FreeNames(eng_term)
    /\ eng_out.to \notin BinderNames(eng_term) \cup CtxNames(eng_ctx)
    /\ eng_out.infer1.tag # eng_out.infer2.tag

\* ... or the name of another parameter of the term, ...
RenamedOntoParameter ==
    /\ eng_out.op = "rename"
    /\ eng_out.to \in BinderNames(eng_term)
    /\ eng_out.to \notin FreeNames(eng_term) \cup CtxNames(eng_ctx)
    /\ eng_out.infer1.tag # eng_out.infer2.tag

\* ... or a name of the context, where the failure becomes another one.
RenamedOntoContextName ==
    /\ eng_out.op = "rename"
    /\ eng_out.to \in CtxNames(eng_ctx)
    /\ eng_out.to \notin FreeNames(eng_term) \cup BinderNames(eng_term)
    /\ eng_out.infer1.tag = "Err"
    /\ eng_out.infer2.tag = "Err"
    /\ eng_out.infer1.err.tag # eng_out.infer2.err.tag

\* A renaming to an unused name after which infer fails with an error that
\* differs from the first in the parameter's name only.
RenamedErrorNamesParameter ==
    /\ eng_out.op = "rename"
    /\ RenamedToUnusedName
    /\ eng_out.infer1.tag = "Err"
    /\ eng_out.infer2.tag = "Err"
    /\ ~TypeErrorEq(eng_out.infer1.err, eng_out.infer2.err)

\* C11: normalize is idempotent on well-typed terms: when infer succeeds
\* on a term in a context, normalize succeeds on the term and on its own
\* result, and the second result equals the first.
NormalizeIdempotent ==
    (eng_out.op = "normalize_twice" /\ eng_out.infer.tag = "Ok") =>
        /\ eng_out.first.tag = "Ok"
        /\ eng_out.second.tag = "Ok"
        /\ TermEq(eng_out.second.val, eng_out.first.val)

\* A well-typed application whose function normalizes to a Lam has been
\* normalized twice, the first call having reduced it.
RedexNormalizedTwice ==
    /\ eng_out.op = "normalize_twice"
    /\ eng_out.infer.tag = "Ok"
    /\ eng_term.tag = "App"
    /\ eng_term.fn.tag = "Ann"
    /\ eng_term.fn.expr.tag = "Lam"
    /\ eng_out.first.tag = "Ok"
    /\ ~TermEq(eng_out.first.val, eng_term)

\* The primary labels of a diagnostic, in order.
PrimaryLabels(d) == SelectSeq(d.labels, LAMBDA l : l.style = "Primary")

\* The span an error stores for the construct it is about.
StoredSpan(e) ==
    CASE e.tag = "Internal" -> InternalErrorSpan(e.inner)
      [] e.tag = "UnsubstitutedDebruijnIndex" -> e.span
      [] e.tag = "NotAFunctionType" -> e.fn_span
      [] e.tag = "FunctionParamNeedsAnnotation" -> e.param_span
      [] e.tag = "UndefinedName" -> e.var_span
      [] OTHER -> e.span

\* C13: From<InternalError> gives TypeError::Internal wrapping the same
\* error; to_diagnostic gives severity Bug for every InternalError and for
\* TypeError::Internal and severity Error for every other TypeError; and
\* every diagnostic has exactly one primary label, on the span stored in
\* the error.
InternalErrorsAreBugs ==
    /\ diag.op = "from" =>
          diag.output.tag = "Internal" /\ diag.output.inner = diag.input
    /\ diag.op = "internal_to_diagnostic" => diag.output.severity = "Bug"
    /\ diag.op = "type_to_diagnostic" =>
          diag.output.severity =
              (IF diag.input.tag = "Internal" THEN "Bug" ELSE "Error")
    /\ diag.op \in {"internal_to_diagnostic", "type_to_diagnostic"} =>
          /\ Len(PrimaryLabels(diag.output)) = 1
          /\ PrimaryLabels(diag.output)[1].span = StoredSpan(diag.input)

\* A TypeError::Internal whose span is not the empty span at 0 has been
\* rendered.
InternalRendered ==
    /\ diag.op = "type_to_diagnostic"
    /\ diag.input.tag = "Internal"
    /\ diag.input.inner.tag = "UnsubstitutedDebruijnIndex"
    /\ diag.input.inner.span # NoSpan
    /\ diag.output.severity = "Bug"

\* The latest turn of the loop read a line whose eval_print returned an
\* error.
LineFailed ==
    repl_last.kind = "line" /\ repl_last.eval.result.tag = "Err"

\* The latest turn of the loop is one that ends the loop: a Quit command,
\* end of input, or a readline error other than Interrupted.
LoopEnded ==
    \/ /\ repl_last.kind = "line"
       /\ repl_last.line.parse_errors = <<>>
       /\ repl_last.line.command.tag = "Quit"
    \/ /\ repl_last.kind = "readline_error"
       /\ repl_last.err # "Interrupted"

\* C12: an input line that yields parse errors or a TypeError (Internal
\* included) has one diagnostic emitted for each error, in order, and leaves
\* run in its loop, about to read the next line; run leaves the loop only
\* on Quit, on end of input or on a readline error other than Interrupted;
\* and when run has returned after leaving the loop with a history file
\* configured, save_history has been called.
ErrorsNeverAbortRepl ==
    /\ LineFailed =>
          /\ repl_pc = "loop"
          /\ run_result = None
          /\ LET err == repl_last.eval.result.err
             IN  IF err.tag = "Parse"
                 THEN /\ Len(repl_last.emitted) = Len(err.errs)
                      /\ \A i \in 1..Len(err.errs) :
                            repl_last.emitted[i] = ParseErrorToDiagnostic(err.errs[i])
                 ELSE repl_last.emitted = <<TypeErrorToDiagnostic(err.err)>>
    /\ repl_pc = "after_loop" => LoopEnded
    /\ (repl_pc = "returned" /\ repl_last.kind # "none") =>
          /\ LoopEnded
          /\ history_file => history_save \in {"ok", "failed"}
          /\ ~history_file => history_save = "none" /\ run_result = Some(Ok(<<>>))

\* run has returned Ok(()) after a Quit with the history saved, and
\* diagnostics were emitted on the way.
QuitAfterErrors ==
    /\ repl_pc = "returned"
    /\ run_result = Some(Ok(<<>>))
    /\ history_file
    /\ history_save = "ok"
    /\ emitted_total > 0
    /\ repl_last.kind = "line"
    /\ repl_last.line.command.tag = "Quit"

\* C14: eval_print calls neither infer nor normalize when the parse gave a
\* parse error; for Eval it calls normalize only after infer has succeeded
\* on the same term in an empty Context, so that when infer returns a
\* TypeError normalize is not called and nothing is printed; and a command
\* other than Quit that completes without error returns Continue.
EvalIsGated ==
    repl_last.kind = "line" =>
        LET line == repl_last.line
            eval == repl_last.eval
            calls == eval.calls
        IN  /\ line.parse_errors # <<>> =>
                  calls = <<>> /\ eval.result = Err(EvalPrintParse(line.parse_errors))
            /\ \A i \in 1..Len(calls) :
                  calls[i].fn = "normalize" =>
                      /\ line.command.tag = "Eval"
                      /\ i = 2
                      /\ calls[1].fn = "infer"
                      /\ calls[1].result.tag = "Ok"
                      /\ calls[1].term = calls[2].term
                      /\ calls[1].term = line.command.term
                      /\ calls[1].ctx = <<>>
                      /\ calls[2].ctx = <<>>
            /\ (line.parse_errors = <<>> /\ line.command.tag = "Eval") =>
                  /\ Len(calls) >= 1
                  /\ calls[1].fn = "infer"
                  /\ calls[1].result.tag = "Err" =>
                        /\ Len(calls) = 1
                        /\ eval.printed = <<>>
                        /\ eval.result = Err(EvalPrintType(calls[1].result.err))
            /\ (eval.result.tag = "Ok" /\ line.command.tag # "Quit") =>
                  eval.result.val = Continue

\* An Eval of \x. x has been read: infer failed on it.
EvalOfLamRead ==
    /\ repl_last.kind = "line"
    /\ repl_last.line.parse_errors = <<>>
    /\ repl_last.line.command.tag = "Eval"
    /\ repl_last.line.command.term.tag = "Lam"
    /\ repl_last.eval.result.tag = "Err"
    /\ repl_last.eval.result.err.tag = "Type"
    /\ Len(repl_last.eval.calls) = 1

\* C15: only User names are captured by a binder.  The closure of
\* Scope::bind answers Some(ZERO) exactly for a found name that is a User
\* name with the string of the parameter's User name, so a Gen name is not
\* equal even to the Gen name with the same id, and bind with an Abstract or
\* Gen parameter returns the body unchanged, whatever free names it holds.
OnlyUserNamesCaptured ==
    bc_op.kind = "bind" =>
        /\ \A found \in Names :
              bc_op.on_free[found] =
                  (IF /\ bc_op.name.tag = "User"
                      /\ found.tag = "User"
                      /\ found.s = bc_op.name.s
                   THEN Some(ZERO) ELSE None)
        /\ bc_op.name.tag \in {"Abstract", "Gen"} =>
              /\ bc_op.after = bc_op.before
              /\ term.scope.unsafe_body = bc_op.before

\* A body holding Free(Gen(0)) has been bound by a parameter named Gen(0).
GenBoundOverSameGen ==
    /\ bc_op.kind = "bind"
    /\ bc_op.name = Gen(0)
    /\ bc_op.before = Var(Free(Gen(0)))
    /\ bc_op.after = bc_op.before

====
